---------------------------- MODULE Spec2Model ----------------------------
(***************************************************************************)
(* A model of src/trading.py: the EMA engine (EMA), the three-EMA          *)
(* crossover signal generator (EMA_trading_strategy) and the fee-aware     *)
(* backtest (assessTradingStrategy).                                       *)
(*                                                                         *)
(* Every loop of the source is a scan over the rows of a DataFrame; one    *)
(* action of the model is one iteration of such a loop (or the code after  *)
(* the loop).  Row numbers are the Python ones (0-based); a column is a    *)
(* sequence, so row i of column c is c[i+1].                               *)
(*                                                                         *)
(* Floating-point numbers are modelled as exact rationals.  Prices and EMA *)
(* values are pairs <<n, d>> in lowest terms with d > 0, and the float NaN *)
(* is the pair <<0, 0>>.  The investment balance is multiplied by a ratio  *)
(* with denominator 161200 * close at every closed trade, so it is kept as *)
(* a signed fraction of multi-limb naturals (base 10000, least significant *)
(* limb first).                                                            *)
(***************************************************************************)
EXTENDS Integers, Sequences, FiniteSets, TLC

-----------------------------------------------------------------------------
(* Bounds of the model *)

\* longest close-price column given to EMA
MaxLen == 4
\* longest EMA columns given to EMA_trading_strategy
MaxRows == 3
\* longest close/signal columns given to assessTradingStrategy
MaxBars == 4
\* the longest close series and the largest period given to the chained calls
MaxPipeLen == 5
MaxPeriod == 4

-----------------------------------------------------------------------------
(* Exact rationals <<n, d>> standing for float values; <<0, 0>> is NaN *)

NaN == <<0, 0>>

Abs(x) == IF x < 0 THEN -x ELSE x

RECURSIVE GCD(_, _)
GCD(a, b) == IF b = 0 THEN a ELSE GCD(b, a % b)

\* n/d in lowest terms with a positive denominator (d # 0)
Norm(n, d) ==
    LET g == GCD(Abs(n), Abs(d))
        s == IF d < 0 THEN -1 ELSE 1
    IN  <<(s * n) \div g, (s * d) \div g>>

R(n) == <<n, 1>>

\* np.isnan
isnan(x) == x[2] = 0

\* float +, -, *: NaN if either operand is NaN
RAdd(x, y) ==
    IF isnan(x) \/ isnan(y) THEN NaN
    ELSE Norm(x[1] * y[2] + y[1] * x[2], x[2] * y[2])

RSub(x, y) ==
    IF isnan(x) \/ isnan(y) THEN NaN
    ELSE Norm(x[1] * y[2] - y[1] * x[2], x[2] * y[2])

RMul(x, y) ==
    IF isnan(x) \/ isnan(y) THEN NaN
    ELSE Norm(x[1] * y[1], x[2] * y[2])

\* float /; the model only divides by non-zero values (0.0/0 gives NaN)
RDiv(x, y) ==
    IF isnan(x) \/ isnan(y) \/ y[1] = 0 THEN NaN
    ELSE Norm(x[1] * y[2], x[2] * y[1])

\* float <, >: False if either operand is NaN
RLt(x, y) == ~isnan(x) /\ ~isnan(y) /\ x[1] * y[2] < y[1] * x[2]
RGt(x, y) == RLt(y, x)


-----------------------------------------------------------------------------
(* Naturals of any size: limbs in base 10000, least significant first, no    *)
(* leading zero limb; <<>> is 0                                              *)

RECURSIVE BigOf(_)
BigOf(n) == IF n = 0 THEN <<>> ELSE <<n % 10000>> \o BigOf(n \div 10000)

RECURSIVE BTrim(_)
BTrim(a) ==
    IF a = <<>> THEN a
    ELSE IF a[Len(a)] = 0 THEN BTrim(SubSeq(a, 1, Len(a) - 1)) ELSE a

RECURSIVE BAddC(_, _, _)
BAddC(a, b, c) ==
    IF a = <<>> /\ b = <<>> THEN (IF c = 0 THEN <<>> ELSE <<c>>)
    ELSE LET x == IF a = <<>> THEN 0 ELSE Head(a)
             y == IF b = <<>> THEN 0 ELSE Head(b)
             t == x + y + c
         IN  <<t % 10000>> \o BAddC(IF a = <<>> THEN a ELSE Tail(a),
                                    IF b = <<>> THEN b ELSE Tail(b),
                                    t \div 10000)

BAdd(a, b) == BAddC(a, b, 0)

\* a - b for a >= b
RECURSIVE BSubC(_, _, _)
BSubC(a, b, c) ==
    IF a = <<>> THEN <<>>
    ELSE LET y == IF b = <<>> THEN 0 ELSE Head(b)
             t == Head(a) - y - c
         IN  <<IF t < 0 THEN t + 10000 ELSE t>>
                \o BSubC(Tail(a), IF b = <<>> THEN b ELSE Tail(b), IF t < 0 THEN 1 ELSE 0)

BSub(a, b) == BTrim(BSubC(a, b, 0))

\* a * m for a limb m
RECURSIVE BMulSmallC(_, _, _)
BMulSmallC(a, m, c) ==
    IF a = <<>> THEN (IF c = 0 THEN <<>> ELSE <<c>>)
    ELSE LET t == Head(a) * m + c
         IN  <<t % 10000>> \o BMulSmallC(Tail(a), m, t \div 10000)

BMulSmall(a, m) == IF m = 0 THEN <<>> ELSE BMulSmallC(a, m, 0)

BShift(a) == IF a = <<>> THEN a ELSE <<0>> \o a

RECURSIVE BMul(_, _)
BMul(a, b) ==
    IF a = <<>> \/ b = <<>> THEN <<>>
    ELSE BAdd(BMulSmall(a, Head(b)), BShift(BMul(a, Tail(b))))

\* -1, 0 or 1 as a < b, a = b or a > b
RECURSIVE BCmpFrom(_, _, _)
BCmpFrom(a, b, k) ==
    IF k = 0 THEN 0
    ELSE IF a[k] < b[k] THEN -1
    ELSE IF a[k] > b[k] THEN 1
    ELSE BCmpFrom(a, b, k - 1)

BCmp(a, b) ==
    IF Len(a) < Len(b) THEN -1
    ELSE IF Len(a) > Len(b) THEN 1
    ELSE BCmpFrom(a, b, Len(a))

\* the largest limb q in lo..hi with q * d <= cur, given lo * d <= cur
RECURSIVE BDigit(_, _, _, _)
BDigit(cur, d, lo, hi) ==
    IF lo = hi THEN lo
    ELSE LET mid == (lo + hi + 1) \div 2
         IN  IF BCmp(BMulSmall(d, mid), cur) <= 0
             THEN BDigit(cur, d, mid, hi)
             ELSE BDigit(cur, d, lo, mid - 1)

\* <<quotient, remainder>> of the number made of limbs k.. of a, divided by d # 0
RECURSIVE BDivFrom(_, _, _)
BDivFrom(a, d, k) ==
    IF k > Len(a) THEN <<(<<>>), (<<>>)>>
    ELSE LET prev == BDivFrom(a, d, k + 1)
             cur == BTrim(<<a[k]>> \o prev[2])
             q == BDigit(cur, d, 0, 9999)
         IN  <<BTrim(<<q>> \o prev[1]), BSub(cur, BMulSmall(d, q))>>

BDivMod(a, d) == BDivFrom(a, d, 1)

(* Signed fractions of such naturals: [neg, n, d] is (-1)^neg * n / d, d # 0 *)

Q(neg, n, d) == [neg |-> neg /\ n # <<>>, n |-> n, d |-> d]

\* the fraction equal to the rational x (x not NaN)
QOfR(x) == Q(x[1] < 0, BigOf(Abs(x[1])), BigOf(x[2]))

QOfInt(k) == QOfR(R(k))

QMul(x, y) == Q(x.neg # y.neg, BMul(x.n, y.n), BMul(x.d, y.d))

\* x / y for y # 0
QDiv(x, y) == Q(x.neg # y.neg, BMul(x.n, y.d), BMul(x.d, y.n))

QNeg(x) == Q(~x.neg, x.n, x.d)

QAdd(x, y) ==
    LET a == BMul(x.n, y.d)
        b == BMul(y.n, x.d)
        d == BMul(x.d, y.d)
    IN  IF x.neg = y.neg THEN Q(x.neg, BAdd(a, b), d)
        ELSE IF BCmp(a, b) >= 0 THEN Q(x.neg, BSub(a, b), d)
        ELSE Q(y.neg, BSub(b, a), d)

QSub(x, y) == QAdd(x, QNeg(y))

\* -1, 0 or 1 as x < y, x = y or x > y
QCmp(x, y) ==
    LET c == BCmp(BMul(x.n, y.d), BMul(y.n, x.d))
    IN  IF x.neg /\ ~y.neg THEN -1
        ELSE IF ~x.neg /\ y.neg THEN 1
        ELSE IF x.neg THEN -c ELSE c

QEq(x, y) == QCmp(x, y) = 0
QGeq(x, y) == QCmp(x, y) >= 0

\* round(x, 2): the nearest multiple of 1/100, a tie going to the even one
QRound2(x) ==
    LET qr == BDivMod(BMulSmall(x.n, 100), x.d)
        c == qr[1]
        twice == BCmp(BMulSmall(qr[2], 2), x.d)
        odd == c # <<>> /\ c[1] % 2 = 1
        up == twice > 0 \/ (twice = 0 /\ odd)
    IN  Q(x.neg, IF up THEN BAdd(c, <<1>>) ELSE c, BigOf(100))

-----------------------------------------------------------------------------
(* State *)

VARIABLES
    \* EMA(df, closeCol, numPeriods)
    emaClose,       \* dfCopy[closeCol]
    numPeriods,
    emaOut,         \* dfCopy[f'{numPeriods}_period_EMA']
    emaI,           \* the loop variable i
    emaPc,          \* "call", "loop", "returned", "raised", or "idle"
    \* EMA_trading_strategy(df, emaCol1, emaCol2, emaCol3)
    emaCol1, emaCol2, emaCol3,      \* dfCopy[emaCol1], dfCopy[emaCol2], dfCopy[emaCol3]
    Buy_Sell_Signal,                \* dfCopy['Buy_Sell_Signal']
    stratBought,    \* the local bought
    stratI,         \* the loop variable i
    stratPc,        \* "call", "loop", "returned", or "idle"
    stratBoughtAfter,               \* history: bought at the end of each iteration
    \* assessTradingStrategy(df, closeCol, buySellSignalCol, initialAmount)
    closeCol,       \* df[closeCol]
    buySellSignalCol,               \* df[buySellSignalCol]
    initialAmount,
    investment, buyPrice, sellPrice, bought,
    numSuccess, numFailure, endingInvestmentAmount,
    i,              \* the loop variable i
    pc,             \* "loop", "returned", "raised", or "idle"
    result,         \* the returned tuple
    \* a caller that chains the three functions
    pipePeriods,    \* the three periods (short, mid, long)
    pipePc          \* "off", "short", "mid", "long", "strategy", or "assess"

emaVars == <<emaClose, numPeriods, emaOut, emaI, emaPc>>
stratVars == <<emaCol1, emaCol2, emaCol3, Buy_Sell_Signal, stratBought, stratI, stratPc,
               stratBoughtAfter>>
assessVars == <<closeCol, buySellSignalCol, initialAmount, investment, buyPrice,
                sellPrice, bought, numSuccess, numFailure, endingInvestmentAmount,
                i, pc, result>>
pipeVars == <<pipePeriods, pipePc>>
vars == <<emaVars, stratVars, assessVars, pipeVars>>

\* all sequences over S of length at most n
SeqsUpTo(S, n) == UNION {[1..m -> S] : m \in 0..n}

\* a function that has not been called
EMAIdle ==
    /\ emaClose = <<>> /\ numPeriods = 1 /\ emaOut = <<>> /\ emaI = 0
    /\ emaPc = "idle"

PipeIdle == pipePeriods = <<1, 2, 3>> /\ pipePc = "off"

StratIdle ==
    /\ emaCol1 = <<>> /\ emaCol2 = <<>> /\ emaCol3 = <<>>
    /\ Buy_Sell_Signal = <<>> /\ stratBought = FALSE /\ stratI = 0
    /\ stratPc = "idle" /\ stratBoughtAfter = <<>>

-----------------------------------------------------------------------------
(* EMA *)

\* the close prices EMA is tried on; NaN is an undefined entry
SeriesVals == {NaN, R(1), R(2), R(4)}

\* the series of the worked example: closes 10..50 with period 3
Scenario1Close == <<R(10), R(20), R(30), R(40), R(50)>>

\* NaNColumn with 0.0 for NaN
ZeroColumn(n) == [j \in 1..n |-> R(0)]

\* a column of n NaNs: dfCopy[...] = float('NaN')
NaNColumn(n) == [j \in 1..n |-> NaN]

\* np.sum of rows lo..hi of a pandas column: Series.sum skips NaN entries,
\* and the sum of no entries is 0
RECURSIVE SumSkipNA(_, _, _)
SumSkipNA(col, lo, hi) ==
    IF hi < lo THEN R(0)
    ELSE LET rest == SumSkipNA(col, lo, hi - 1)
         IN  IF isnan(col[hi + 1]) THEN rest ELSE RAdd(rest, col[hi + 1])

\* k = 2/(numPeriods+1)
SmoothingK(p) == Norm(2, p + 1)

\* SeedValue with the slice started one row late
SeedValueShortWindow(close, p, row) == RDiv(SumSkipNA(close, row - (p - 1) + 1, row), R(p))

\* line 24: the simple moving average written at row i = numPeriods - 1
SeedValue(close, p, row) == RDiv(SumSkipNA(close, row - (p - 1), row), R(p))

\* RecurValue with the weights k and 1 - k exchanged
RecurValueSwapped(close, out, k, row) ==
    RAdd(RMul(close[row + 1], RSub(R(1), k)), RMul(out[row], k))

\* line 27: the value written at a row i > numPeriods - 1
RecurValue(close, out, k, row) ==
    RAdd(RMul(close[row + 1], k), RMul(out[row], RSub(R(1), k)))

EMAInit ==
    /\ emaClose \in SeqsUpTo(SeriesVals, MaxLen) \cup {Scenario1Close}
    /\ numPeriods \in -1..(MaxLen + 1)
    /\ emaOut = <<>>
    /\ emaI = 0
    /\ emaPc = "call"

\* line 20 with numPeriods = -1: 2/0 raises ZeroDivisionError
EMADivZero ==
    /\ emaPc = "call"
    /\ numPeriods + 1 = 0
    /\ emaPc' = "raised"
    /\ UNCHANGED <<emaClose, numPeriods, emaOut, emaI>>
    /\ UNCHANGED <<stratVars, assessVars, pipeVars>>

\* lines 18-21: the NaN column, k, and the first value of range(numPeriods-1, len)
EMAEnter ==
    /\ emaPc = "call"
    /\ numPeriods + 1 # 0
    /\ emaOut' = NaNColumn(Len(emaClose))
    /\ emaI' = numPeriods - 1
    /\ emaPc' = "loop"
    /\ UNCHANGED <<emaClose, numPeriods>>
    /\ UNCHANGED <<stratVars, assessVars, pipeVars>>

\* lines 22-24 with numPeriods = 0, where the scan starts at i = -1: the seed,
\* np.sum of an empty slice over 0 = NaN, is assigned to the label -1, which is
\* no row of the frame, so no row of the column changes
EMASeedOffFrame ==
    /\ emaPc = "loop"
    /\ emaI < 0
    /\ emaI = numPeriods - 1
    /\ emaI' = emaI + 1
    /\ UNCHANGED <<emaClose, numPeriods, emaOut, emaPc>>
    /\ UNCHANGED <<stratVars, assessVars, pipeVars>>

\* line 27 at i = 0 with numPeriods = 0: the previous value is read at the
\* label -1, which the column does not have: KeyError
EMAKeyError ==
    /\ emaPc = "loop"
    /\ emaI = 0 /\ emaI < Len(emaClose)
    /\ emaI # numPeriods - 1
    /\ emaPc' = "raised"
    /\ UNCHANGED <<emaClose, numPeriods, emaOut, emaI>>
    /\ UNCHANGED <<stratVars, assessVars, pipeVars>>

\* lines 22-24
EMASeed ==
    /\ emaPc = "loop"
    /\ 0 <= emaI /\ emaI < Len(emaClose)
    /\ emaI = numPeriods - 1
    /\ emaOut' = [emaOut EXCEPT ![emaI + 1] = SeedValue(emaClose, numPeriods, emaI)]
    /\ emaI' = emaI + 1
    /\ UNCHANGED <<emaClose, numPeriods, emaPc>>
    /\ UNCHANGED <<stratVars, assessVars, pipeVars>>

\* lines 25-27
EMARecur ==
    /\ emaPc = "loop"
    /\ 1 <= emaI /\ emaI < Len(emaClose)
    /\ emaI # numPeriods - 1
    /\ emaOut' = [emaOut EXCEPT
                    ![emaI + 1] = RecurValue(emaClose, emaOut, SmoothingK(numPeriods), emaI)]
    /\ emaI' = emaI + 1
    /\ UNCHANGED <<emaClose, numPeriods, emaPc>>
    /\ UNCHANGED <<stratVars, assessVars, pipeVars>>

\* line 29: the range is exhausted
EMAReturn ==
    /\ emaPc = "loop"
    /\ emaI >= Len(emaClose)
    /\ emaPc' = "returned"
    /\ UNCHANGED <<emaClose, numPeriods, emaOut, emaI>>
    /\ UNCHANGED <<stratVars, assessVars, pipeVars>>

EMANext ==
    \/ EMADivZero
    \/ EMAEnter
    \/ EMASeedOffFrame
    \/ EMAKeyError
    \/ EMASeed
    \/ EMARecur
    \/ EMAReturn

-----------------------------------------------------------------------------
(* EMA_trading_strategy *)

\* the entries of the Buy_Sell_Signal column; the empty entry is float('NaN')
NoSignal == "NaN"
Signals == {NoSignal, "BUY", "SELL"}

\* the EMA values the generator is tried on, per column
ShortVals == {NaN, R(1), R(3)}
MidVals == {NaN, R(2), R(3)}
LongVals == {NaN, R(1), R(3)}

\* line 54
AnyNaN(e1, e2, e3) == isnan(e1) \/ isnan(e2) \/ isnan(e3)

\* BuyCond without the test of bought
BuyCondNoFlag(e1, e2, e3, b) == RLt(e2, e1) /\ RLt(e3, e2)

\* BuyCond with <= for <
BuyCondNonStrict(e1, e2, e3, b) == ~RGt(e2, e1) /\ ~RGt(e3, e2) /\ b = FALSE

\* line 56
BuyCond(e1, e2, e3, b) == RLt(e2, e1) /\ RLt(e3, e2) /\ b = FALSE

\* line 59
SellCond(e1, e2, e3, b) == RGt(e2, e1) /\ RGt(e3, e2) /\ b = TRUE

\* lines 47-49: the three columns as given, the signal column all NaN, bought False
StratInit ==
    /\ \E n \in 0..MaxRows :
        /\ emaCol1 \in [1..n -> ShortVals]
        /\ emaCol2 \in [1..n -> MidVals]
        /\ emaCol3 \in [1..n -> LongVals]
        /\ Buy_Sell_Signal = [j \in 1..n |-> NoSignal]
    /\ stratBought = FALSE
    /\ stratI = 0
    /\ stratPc = "loop"
    /\ stratBoughtAfter = <<>>

StratRow == stratI + 1

\* StratSkip that also clears bought on a row with an undefined EMA
StratSkipClearsBought ==
    /\ stratPc = "loop" /\ stratI < Len(emaCol1)
    /\ AnyNaN(emaCol1[StratRow], emaCol2[StratRow], emaCol3[StratRow])
    /\ stratI' = stratI + 1
    /\ stratBought' = FALSE
    /\ stratBoughtAfter' = Append(stratBoughtAfter, stratBought')
    /\ UNCHANGED <<emaCol1, emaCol2, emaCol3, Buy_Sell_Signal, stratPc>>
    /\ UNCHANGED <<emaVars, assessVars, pipeVars>>

\* lines 54-55
StratSkip ==
    /\ stratPc = "loop" /\ stratI < Len(emaCol1)
    /\ AnyNaN(emaCol1[StratRow], emaCol2[StratRow], emaCol3[StratRow])
    /\ stratI' = stratI + 1
    /\ stratBoughtAfter' = Append(stratBoughtAfter, stratBought)
    /\ UNCHANGED <<emaCol1, emaCol2, emaCol3, Buy_Sell_Signal, stratBought, stratPc>>
    /\ UNCHANGED <<emaVars, assessVars, pipeVars>>

\* lines 56-58
StratBuy ==
    /\ stratPc = "loop" /\ stratI < Len(emaCol1)
    /\ ~AnyNaN(emaCol1[StratRow], emaCol2[StratRow], emaCol3[StratRow])
    /\ BuyCond(emaCol1[StratRow], emaCol2[StratRow], emaCol3[StratRow], stratBought)
    /\ Buy_Sell_Signal' = [Buy_Sell_Signal EXCEPT ![StratRow] = "BUY"]
    /\ stratBought' = TRUE
    /\ stratI' = stratI + 1
    /\ stratBoughtAfter' = Append(stratBoughtAfter, stratBought')
    /\ UNCHANGED <<emaCol1, emaCol2, emaCol3, stratPc>>
    /\ UNCHANGED <<emaVars, assessVars, pipeVars>>

\* lines 59-61
StratSell ==
    /\ stratPc = "loop" /\ stratI < Len(emaCol1)
    /\ ~AnyNaN(emaCol1[StratRow], emaCol2[StratRow], emaCol3[StratRow])
    /\ ~BuyCond(emaCol1[StratRow], emaCol2[StratRow], emaCol3[StratRow], stratBought)
    /\ SellCond(emaCol1[StratRow], emaCol2[StratRow], emaCol3[StratRow], stratBought)
    /\ Buy_Sell_Signal' = [Buy_Sell_Signal EXCEPT ![StratRow] = "SELL"]
    /\ stratBought' = FALSE
    /\ stratI' = stratI + 1
    /\ stratBoughtAfter' = Append(stratBoughtAfter, stratBought')
    /\ UNCHANGED <<emaCol1, emaCol2, emaCol3, stratPc>>
    /\ UNCHANGED <<emaVars, assessVars, pipeVars>>

\* no branch of lines 54-61 is taken
StratNone ==
    /\ stratPc = "loop" /\ stratI < Len(emaCol1)
    /\ ~AnyNaN(emaCol1[StratRow], emaCol2[StratRow], emaCol3[StratRow])
    /\ ~BuyCond(emaCol1[StratRow], emaCol2[StratRow], emaCol3[StratRow], stratBought)
    /\ ~SellCond(emaCol1[StratRow], emaCol2[StratRow], emaCol3[StratRow], stratBought)
    /\ stratI' = stratI + 1
    /\ stratBoughtAfter' = Append(stratBoughtAfter, stratBought)
    /\ UNCHANGED <<emaCol1, emaCol2, emaCol3, Buy_Sell_Signal, stratBought, stratPc>>
    /\ UNCHANGED <<emaVars, assessVars, pipeVars>>

\* line 63
StratReturn ==
    /\ stratPc = "loop" /\ stratI >= Len(emaCol1)
    /\ stratPc' = "returned"
    /\ UNCHANGED <<emaCol1, emaCol2, emaCol3, Buy_Sell_Signal, stratBought, stratI,
                   stratBoughtAfter>>
    /\ UNCHANGED <<emaVars, assessVars, pipeVars>>

StratNext ==
    \/ StratSkip
    \/ StratBuy
    \/ StratSell
    \/ StratNone
    \/ StratReturn

-----------------------------------------------------------------------------
(* assessTradingStrategy *)

\* the close prices the backtest is tried on
CloseVals == {R(1), R(200)}

\* the initial investment amounts it is tried on; 1000 is the default
InitialAmounts == {1000}

\* the worked example: one trade, bought at 102 and sold at 104
Scenario2Close == <<R(100), R(101), R(102), R(103), R(104), R(105)>>
Scenario2Signal == <<NoSignal, NoSignal, "BUY", NoSignal, "SELL", NoSignal>>

\* the 0.75% trading fee: .0075 of lines 97 and 103
Fee == Norm(75, 10000)

\* BuyPriceOf without the fee
BuyPriceNoFee(close) == close

\* line 97: df[closeCol][i] * (1 + .0075)
BuyPriceOf(close) == RMul(close, RAdd(R(1), Fee))

\* line 103: sellPrice/buyPrice - 0.0075
TradeFactor(sell, buy) == RSub(RDiv(sell, buy), Fee)

\* line 104: investment >= investmentInitial
IsSuccess(after, before) == QGeq(after, before)

\* Snapshot taken of the investment the iteration started with
SnapshotBefore(inv) ==
    IF i = Len(closeCol) - 1 THEN QRound2(investment) ELSE endingInvestmentAmount

\* lines 109-110, run at the end of every iteration with the iteration's investment
Snapshot(inv) ==
    IF i = Len(closeCol) - 1 THEN QRound2(inv) ELSE endingInvestmentAmount

AssessIdle ==
    /\ closeCol = <<>> /\ buySellSignalCol = <<>> /\ initialAmount = 1000
    /\ investment = QOfInt(1000) /\ buyPrice = R(0) /\ sellPrice = R(0)
    /\ bought = FALSE /\ numSuccess = 0 /\ numFailure = 0
    /\ endingInvestmentAmount = QOfInt(0) /\ i = 0 /\ pc = "idle" /\ result = <<>>

\* lines 86-92
AssessInit ==
    /\ \/ \E n \in 0..MaxBars :
            /\ closeCol \in [1..n -> CloseVals]
            /\ buySellSignalCol \in [1..n -> Signals]
       \/ closeCol = Scenario2Close /\ buySellSignalCol = Scenario2Signal
    /\ initialAmount \in InitialAmounts
    /\ investment = QOfInt(initialAmount)
    /\ buyPrice = R(0)
    /\ sellPrice = R(0)
    /\ bought = FALSE
    /\ numSuccess = 0
    /\ numFailure = 0
    /\ endingInvestmentAmount = QOfInt(0)
    /\ i = 0
    /\ pc = "loop"
    /\ result = <<>>

Row == i + 1

\* TakesBuy without the test of bought
TakesBuyNoFlag == buySellSignalCol[Row] = "BUY"

\* TakesSell without the test of bought
TakesSellNoFlag == buySellSignalCol[Row] = "SELL"

\* line 95
TakesBuy == buySellSignalCol[Row] = "BUY" /\ bought = FALSE

\* line 99
TakesSell == buySellSignalCol[Row] = "SELL" /\ bought = TRUE

\* lines 95-98, then 109-110
AssessBuy ==
    /\ pc = "loop" /\ i < Len(closeCol)
    /\ TakesBuy
    /\ buyPrice' = BuyPriceOf(closeCol[Row])
    /\ bought' = TRUE
    /\ endingInvestmentAmount' = Snapshot(investment)
    /\ i' = i + 1
    /\ UNCHANGED <<closeCol, buySellSignalCol, initialAmount, investment, sellPrice,
                   numSuccess, numFailure, pc, result>>
    /\ UNCHANGED <<emaVars, stratVars, pipeVars>>

\* lines 99-108, then 109-110
AssessSell ==
    /\ pc = "loop" /\ i < Len(closeCol)
    /\ ~TakesBuy
    /\ TakesSell
    /\ sellPrice' = closeCol[Row]
    /\ investment' = QMul(investment, QOfR(TradeFactor(sellPrice', buyPrice)))
    /\ IF IsSuccess(investment', investment)
       THEN numSuccess' = numSuccess + 1 /\ numFailure' = numFailure
       ELSE numFailure' = numFailure + 1 /\ numSuccess' = numSuccess
    /\ bought' = FALSE
    /\ endingInvestmentAmount' = Snapshot(investment')
    /\ i' = i + 1
    /\ UNCHANGED <<closeCol, buySellSignalCol, initialAmount, buyPrice, pc, result>>
    /\ UNCHANGED <<emaVars, stratVars, pipeVars>>

\* neither branch of lines 95-108 is taken, then 109-110
AssessSkip ==
    /\ pc = "loop" /\ i < Len(closeCol)
    /\ ~TakesBuy
    /\ ~TakesSell
    /\ endingInvestmentAmount' = Snapshot(investment)
    /\ i' = i + 1
    /\ UNCHANGED <<closeCol, buySellSignalCol, initialAmount, investment, buyPrice,
                   sellPrice, bought, numSuccess, numFailure, pc, result>>
    /\ UNCHANGED <<emaVars, stratVars, pipeVars>>

\* line 112
TotalProfit == QRound2(QSub(investment, QOfInt(initialAmount)))

\* line 113; the string is the number followed by '%'
PercentTotalProfit ==
    <<QRound2(QSub(QMul(QDiv(investment, QOfInt(initialAmount)), QOfInt(100)),
                   QOfInt(100))), "%">>

\* line 114, for numSuccess + numFailure # 0
SuccessRate ==
    <<QRound2(QMul(QOfR(Norm(numSuccess, numSuccess + numFailure)), QOfInt(100))), "%">>

\* lines 112-115 when a trade was closed
AssessReturn ==
    /\ pc = "loop" /\ i >= Len(closeCol)
    /\ numSuccess + numFailure # 0
    /\ result' = <<TotalProfit, PercentTotalProfit, endingInvestmentAmount,
                   numSuccess, numFailure, SuccessRate>>
    /\ pc' = "returned"
    /\ UNCHANGED <<closeCol, buySellSignalCol, initialAmount, investment, buyPrice,
                   sellPrice, bought, numSuccess, numFailure, endingInvestmentAmount, i>>
    /\ UNCHANGED <<emaVars, stratVars, pipeVars>>

\* line 114 when no trade was closed: 0/0 on Python ints raises ZeroDivisionError
AssessRaise ==
    /\ pc = "loop" /\ i >= Len(closeCol)
    /\ numSuccess + numFailure = 0
    /\ pc' = "raised"
    /\ UNCHANGED <<closeCol, buySellSignalCol, initialAmount, investment, buyPrice,
                   sellPrice, bought, numSuccess, numFailure, endingInvestmentAmount,
                   i, result>>
    /\ UNCHANGED <<emaVars, stratVars, pipeVars>>

AssessNext ==
    \/ AssessBuy
    \/ AssessSell
    \/ AssessSkip
    \/ AssessReturn
    \/ AssessRaise

-----------------------------------------------------------------------------
(* The three functions chained: EMA for a short, a mid and a long period over
   one close series, EMA_trading_strategy on the three EMA columns, and
   assessTradingStrategy on the close series and the signal column. *)

PipeCloseVals == {R(1), R(2), R(4)}

\* short < mid < long
PeriodTriples ==
    {t \in (1..MaxPeriod) \X (1..MaxPeriod) \X (1..MaxPeriod) :
        t[1] < t[2] /\ t[2] < t[3]}

\* EMA(df, closeCol, short) is called on a fully populated close series
PipeInit ==
    /\ emaClose \in SeqsUpTo(PipeCloseVals, MaxPipeLen)
    /\ pipePeriods \in PeriodTriples
    /\ numPeriods = pipePeriods[1]
    /\ emaOut = <<>>
    /\ emaI = 0
    /\ emaPc = "call"
    /\ pipePc = "short"
    /\ StratIdle
    /\ AssessIdle

\* the short EMA column is kept and EMA(df, closeCol, mid) is called
PipeCallMid ==
    /\ pipePc = "short" /\ emaPc = "returned"
    /\ emaCol1' = emaOut
    /\ numPeriods' = pipePeriods[2]
    /\ emaOut' = <<>>
    /\ emaI' = 0
    /\ emaPc' = "call"
    /\ pipePc' = "mid"
    /\ UNCHANGED <<emaClose, emaCol2, emaCol3, Buy_Sell_Signal, stratBought, stratI,
                   stratPc, stratBoughtAfter, pipePeriods>>
    /\ UNCHANGED assessVars

\* the mid EMA column is kept and EMA(df, closeCol, long) is called
PipeCallLong ==
    /\ pipePc = "mid" /\ emaPc = "returned"
    /\ emaCol2' = emaOut
    /\ numPeriods' = pipePeriods[3]
    /\ emaOut' = <<>>
    /\ emaI' = 0
    /\ emaPc' = "call"
    /\ pipePc' = "long"
    /\ UNCHANGED <<emaClose, emaCol1, emaCol3, Buy_Sell_Signal, stratBought, stratI,
                   stratPc, stratBoughtAfter, pipePeriods>>
    /\ UNCHANGED assessVars

\* the long EMA column is kept and EMA_trading_strategy is called on the
\* three columns (lines 47-49)
PipeCallStrategy ==
    /\ pipePc = "long" /\ emaPc = "returned"
    /\ emaCol3' = emaOut
    /\ Buy_Sell_Signal' = [j \in 1..Len(emaClose) |-> NoSignal]
    /\ stratBought' = FALSE
    /\ stratI' = 0
    /\ stratPc' = "loop"
    /\ stratBoughtAfter' = <<>>
    /\ pipePc' = "strategy"
    /\ UNCHANGED <<emaCol1, emaCol2, pipePeriods>>
    /\ UNCHANGED <<emaVars, assessVars>>

\* assessTradingStrategy is called on the close series and the signal column
\* that EMA_trading_strategy returned (lines 86-92)
PipeCallAssess ==
    /\ pipePc = "strategy" /\ stratPc = "returned"
    /\ closeCol' = emaClose
    /\ buySellSignalCol' = Buy_Sell_Signal
    /\ initialAmount' \in InitialAmounts
    /\ investment' = QOfInt(initialAmount')
    /\ buyPrice' = R(0)
    /\ sellPrice' = R(0)
    /\ bought' = FALSE
    /\ numSuccess' = 0
    /\ numFailure' = 0
    /\ endingInvestmentAmount' = QOfInt(0)
    /\ i' = 0
    /\ pc' = "loop"
    /\ result' = <<>>
    /\ pipePc' = "assess"
    /\ UNCHANGED pipePeriods
    /\ UNCHANGED <<emaVars, stratVars>>

PipeNext ==
    \/ EMAEnter
    \/ EMASeed
    \/ EMARecur
    \/ EMAReturn
    \/ PipeCallMid
    \/ PipeCallLong
    \/ PipeCallStrategy
    \/ StratSkip
    \/ StratBuy
    \/ StratSell
    \/ StratNone
    \/ StratReturn
    \/ PipeCallAssess
    \/ AssessBuy
    \/ AssessSell
    \/ AssessSkip
    \/ AssessReturn
    \/ AssessRaise

-----------------------------------------------------------------------------
(* Specifications: one per function, each called on its own inputs, and one
   for the chained calls *)

InitEMA == EMAInit /\ StratIdle /\ AssessIdle /\ PipeIdle
SpecEMA == InitEMA /\ [][EMANext]_vars

InitStrategy == EMAIdle /\ StratInit /\ AssessIdle /\ PipeIdle
SpecStrategy == InitStrategy /\ [][StratNext]_vars

InitAssess == EMAIdle /\ StratIdle /\ AssessInit /\ PipeIdle

SpecPipeline == PipeInit /\ [][PipeNext]_vars
SpecAssess == InitAssess /\ [][AssessNext]_vars

Init ==
    \/ InitEMA
    \/ InitStrategy
    \/ InitAssess
    \/ PipeInit

Next ==
    \/ EMANext
    \/ StratNext
    \/ AssessNext
    \/ PipeNext

Spec == Init /\ [][Next]_vars

-----------------------------------------------------------------------------
(* Properties *)

SetMax(S) == CHOOSE x \in S : \A y \in S : y <= x
SetMin(S) == CHOOSE x \in S : \A y \in S : x <= y

\* the last non-empty entry of a signal column before position j (1-based),
\* or the empty entry if there is none
LastSignalBefore(col, j) ==
    LET S == {k \in 1..(j - 1) : col[k] # NoSignal}
    IN  IF S = {} THEN NoSignal ELSE col[SetMax(S)]

\* C1: the signal column of EMA_trading_strategy alternates starting with BUY:
\* a BUY is preceded by no signal or by a SELL as the last signal before it,
\* and a SELL has a BUY as the last signal before it.
C1_SignalsAlternate ==
    \A j \in 1..Len(Buy_Sell_Signal) :
        /\ Buy_Sell_Signal[j] = "BUY" =>
                LastSignalBefore(Buy_Sell_Signal, j) \in {NoSignal, "SELL"}
        /\ Buy_Sell_Signal[j] = "SELL" =>
                LastSignalBefore(Buy_Sell_Signal, j) = "BUY"

\* a finished scan that emitted BUY, SELL, BUY
C1_Witness ==
    /\ stratPc = "returned"
    /\ Buy_Sell_Signal = <<"BUY", "SELL", "BUY">>

\* The positions of a signal column given to the backtest, read off the column
\* alone.  After any SELL the backtest is flat (a SELL taken closes the position,
\* a SELL ignored was met while flat), so it holds a position before position j
\* exactly if a BUY lies between the last SELL before j and j, and the first
\* such BUY is the one that opened the position.
BuysSinceLastSell(sig, j) ==
    LET lastSell == SetMax({k \in 1..(j - 1) : sig[k] = "SELL"} \cup {0})
    IN  {k \in (lastSell + 1)..(j - 1) : sig[k] = "BUY"}

HoldingBefore(sig, j) == BuysSinceLastSell(sig, j) # {}

OpeningBuy(sig, j) == SetMin(BuysSinceLastSell(sig, j))

\* the number of (BUY, SELL) pairs completed in the first n positions
CompletedPairs(sig, n) ==
    Cardinality({j \in 1..n : sig[j] = "SELL" /\ HoldingBefore(sig, j)})

\* C2: after every step of the backtest's scan, numSuccess + numFailure is the
\* number of completed (BUY, SELL) pairs among the positions scanned so far.
C2_CountsArePairs ==
    numSuccess + numFailure = CompletedPairs(buySellSignalCol, i)

\* a scan that met a SELL while flat, closed one trade and ended holding
C2_Witness ==
    /\ pc = "loop" /\ i = Len(buySellSignalCol) /\ i >= 4
    /\ buySellSignalCol[1] = "SELL"
    /\ bought = TRUE
    /\ numSuccess + numFailure = 1

\* C3: a backtest that scanned its whole series without completing a trade
\* reports the success rate as an explicit "undefined" outcome: it does not
\* end in a division fault.
C3_ZeroTradesReported ==
    (pc # "idle" /\ ~(pc = "loop" /\ i < Len(closeCol))
        /\ CompletedPairs(buySellSignalCol, Len(buySellSignalCol)) = 0)
    => /\ pc # "raised"
       /\ pc = "returned" => result[6] = <<"undefined">>

\* C4: EMA called with numPeriods < 1 or numPeriods > len(series) never
\* returns a column.
C4_BadPeriodRejected ==
    (numPeriods < 1 \/ numPeriods > Len(emaClose)) => emaPc # "returned"

FullyPopulated(col) == \A j \in 1..Len(col) : ~isnan(col[j])

RECURSIVE PlainSum(_, _)
PlainSum(col, n) == IF n = 0 THEN R(0) ELSE RAdd(PlainSum(col, n - 1), col[n])

\* the calls C5 and C6 are about
EMAWellCalled ==
    /\ emaPc \in {"loop", "returned"}
    /\ numPeriods >= 1
    /\ Len(emaClose) >= numPeriods
    /\ FullyPopulated(emaClose)

\* C5: for a period p >= 1 and a fully populated series of length >= p, the
\* returned column is as long as the series, its entries at indices 0..p-2 are
\* undefined, and its entry at index p-1 is the mean of the first p closes.
C5_SeedAfterPrefix ==
    (EMAWellCalled /\ emaPc = "returned") =>
        /\ Len(emaOut) = Len(emaClose)
        /\ \A j \in 1..(numPeriods - 1) : isnan(emaOut[j])
        /\ ~isnan(emaOut[numPeriods])
        /\ emaOut[numPeriods] = RDiv(PlainSum(emaClose, numPeriods), R(numPeriods))

\* a returned call whose period is the length of the series
C5_Witness ==
    /\ EMAWellCalled /\ emaPc = "returned"
    /\ numPeriods = Len(emaClose) /\ numPeriods >= 2

\* C6: for such a call, every entry at an index i > p-1 that the scan has
\* passed is close[i] * k + output[i-1] * (1 - k) with k = 2/(p+1), the
\* entries it has not reached are still undefined, and closes 10,20,30,40,50
\* with period 3 give undefined, undefined, 20, 30, 40.
C6_Recurrence ==
    /\ EMAWellCalled =>
        \A j \in (numPeriods + 1)..Len(emaClose) :
            IF j <= emaI
            THEN emaOut[j] = RAdd(RMul(emaClose[j], Norm(2, numPeriods + 1)),
                                  RMul(emaOut[j - 1],
                                       RSub(R(1), Norm(2, numPeriods + 1))))
            ELSE isnan(emaOut[j])
    /\ (emaPc = "returned" /\ emaClose = Scenario1Close /\ numPeriods = 3) =>
            emaOut = <<NaN, NaN, R(20), R(30), R(40)>>

\* the worked example, returned
C6_Witness ==
    /\ emaPc = "returned" /\ emaClose = Scenario1Close /\ numPeriods = 3
    /\ emaOut[5] = R(40)

\* x is n/scale to the nearest 1/scale
About(x, n, scale) ==
    /\ QCmp(x, QOfR(Norm(2 * n - 1, 2 * scale))) >= 0
    /\ QCmp(x, QOfR(Norm(2 * n + 1, 2 * scale))) <= 0

InScenario2 ==
    /\ closeCol = Scenario2Close
    /\ buySellSignalCol = Scenario2Signal
    /\ initialAmount = 1000

\* C7 as stated: in the worked example the BUY records buyPrice = 102.765, and
\* the call returns with a return ratio of about 1.01127, an investment of
\* about 1011.27, numSuccess = 1, numFailure = 0 and totalProfit about 11.27.
C7_AsStated ==
    InScenario2 =>
        /\ i >= 3 => buyPrice = Norm(102765, 1000)
        /\ pc = "returned" =>
            /\ About(QDiv(investment, QOfInt(initialAmount)), 101127, 100000)
            /\ About(investment, 101127, 100)
            /\ result[4] = 1 /\ result[5] = 0
            /\ About(result[1], 1127, 100)

\* C7 amended: the ratio is about 1.00452, the investment about 1004.52 and
\* totalProfit 4.52; the rest as stated.
C7_Amended ==
    InScenario2 =>
        /\ i >= 3 => buyPrice = Norm(102765, 1000)
        /\ pc = "returned" =>
            /\ About(QDiv(investment, QOfInt(initialAmount)), 100452, 100000)
            /\ About(investment, 100452, 100)
            /\ result[4] = 1 /\ result[5] = 0
            /\ QEq(result[1], QOfR(Norm(452, 100)))

\* the worked example, returned
C7_Witness == InScenario2 /\ pc = "returned" /\ numSuccess = 1

\* C8: a step of the backtest that processes a SELL while a position is held
\* multiplies investment by close[sell] / (close[buy] * 1.0075) - 0.0075, close[buy]
\* being the close at the BUY that opened the position; every other step,
\* the code after the scan included, leaves investment as it is, and the code
\* after the scan leaves the trade counts as they are.
C8_InvestmentFrame ==
    [][ IF pc = "loop" /\ i < Len(closeCol)
        THEN IF buySellSignalCol[Row] = "SELL" /\ HoldingBefore(buySellSignalCol, Row)
             THEN QEq(investment',
                      QMul(investment,
                           QOfR(RSub(RDiv(closeCol[Row],
                                          RMul(closeCol[OpeningBuy(buySellSignalCol, Row)],
                                               Norm(10075, 10000))),
                                     Norm(75, 10000)))))
             ELSE investment' = investment
        ELSE /\ investment' = investment
             /\ numSuccess' = numSuccess
             /\ numFailure' = numFailure ]_vars

\* BUY, BUY at another close, SELL, BUY: one trade closed, the last position
\* left open when the call returns
C8_Witness ==
    /\ pc = "returned"
    /\ buySellSignalCol = <<"BUY", "BUY", "SELL", "BUY">>
    /\ closeCol[1] # closeCol[2]
    /\ bought = TRUE
    /\ numSuccess + numFailure = 1

\* C9: the endingInvestmentAmount returned for a non-empty series is
\* investment as it is after the whole scan, rounded to 2 places.
C9_EndingIsFinal ==
    (pc = "returned" /\ Len(closeCol) >= 1) => QEq(result[3], QRound2(investment))

\* a returned call whose last position is a SELL that closed a trade and
\* changed the rounded investment
C9_Witness ==
    /\ pc = "returned" /\ Len(closeCol) >= 1
    /\ buySellSignalCol[Len(closeCol)] = "SELL"
    /\ HoldingBefore(buySellSignalCol, Len(closeCol))
    /\ ~QEq(result[3], QOfInt(initialAmount))

\* x < y for two defined values
Less(x, y) == x[1] * y[2] < y[1] * x[2]

\* the generator is about to scan a row
StratAtRow == stratPc = "loop" /\ stratI < Len(emaCol1)

\* C11: a step of the generator over a position where at least one of the
\* three EMA values is undefined emits no signal and leaves the holding flag
\* as it was.
C11_UndefinedRowIsSkipped ==
    [][ (StratAtRow /\ (\/ emaCol1[StratRow][2] = 0
                        \/ emaCol2[StratRow][2] = 0
                        \/ emaCol3[StratRow][2] = 0))
        => /\ Buy_Sell_Signal' = Buy_Sell_Signal
           /\ Buy_Sell_Signal[StratRow] = NoSignal
           /\ stratBought' = stratBought ]_vars

\* while holding, the generator has passed a row whose mid EMA is undefined
\* and whose other two EMAs are in bearish order, and it still holds
C11_Witness ==
    /\ stratPc = "loop" /\ stratI = 2
    /\ Buy_Sell_Signal[1] = "BUY"
    /\ emaCol1[2] = R(1) /\ isnan(emaCol2[2]) /\ emaCol3[2] = R(3)
    /\ Buy_Sell_Signal[2] = NoSignal
    /\ stratBought = TRUE

\* C12: a step of the generator over a position where all three EMAs are
\* defined emits BUY exactly if mid < short, long < mid and it is not holding,
\* emits SELL exactly if mid > short, long > mid and it is holding, and
\* changes no other entry of the signal column.
C12_SignalIffStacked ==
    [][ (StratAtRow /\ emaCol1[StratRow][2] # 0 /\ emaCol2[StratRow][2] # 0
                    /\ emaCol3[StratRow][2] # 0)
        => /\ Buy_Sell_Signal'[StratRow] = "BUY"
                <=> /\ Less(emaCol2[StratRow], emaCol1[StratRow])
                    /\ Less(emaCol3[StratRow], emaCol2[StratRow])
                    /\ ~stratBought
           /\ Buy_Sell_Signal'[StratRow] = "SELL"
                <=> /\ Less(emaCol1[StratRow], emaCol2[StratRow])
                    /\ Less(emaCol2[StratRow], emaCol3[StratRow])
                    /\ stratBought
           /\ \A j \in 1..Len(Buy_Sell_Signal) :
                j # StratRow => Buy_Sell_Signal'[j] = Buy_Sell_Signal[j] ]_vars

\* BUY at the first bullish row, nothing at a row with short = mid while
\* holding, SELL at the first bearish row
C12_Witness ==
    /\ stratPc = "returned"
    /\ Buy_Sell_Signal = <<"BUY", NoSignal, "SELL">>
    /\ emaCol1[2] = emaCol2[2] /\ ~isnan(emaCol1[2]) /\ ~isnan(emaCol3[2])

\* C13: a step of the backtest over a BUY while holding, a SELL while not
\* holding or an empty signal leaves bought, buyPrice, investment, numSuccess
\* and numFailure as they were.
C13_IgnoredSignalsAreNoOps ==
    [][ (pc = "loop" /\ i < Len(closeCol)
            /\ \/ buySellSignalCol[Row] = "BUY" /\ bought
               \/ buySellSignalCol[Row] = "SELL" /\ ~bought
               \/ buySellSignalCol[Row] = NoSignal)
        => /\ bought' = bought
           /\ buyPrice' = buyPrice
           /\ investment' = investment
           /\ numSuccess' = numSuccess
           /\ numFailure' = numFailure ]_vars

\* BUY at one close, BUY at another: buyPrice is still that of the first
C13_Witness ==
    /\ pc = "loop" /\ i = 2
    /\ buySellSignalCol[1] = "BUY" /\ buySellSignalCol[2] = "BUY"
    /\ closeCol[1] # closeCol[2]
    /\ bought = TRUE
    /\ buyPrice = RMul(closeCol[1], Norm(10075, 10000))

\* C15: when EMA returns for a period p >= 1, every output at an index
\* >= max(j, p-1) is undefined for every index j at which the series is
\* undefined, the seed included when j lies in the seed window.
C15_UndefinedPropagates ==
    (emaPc = "returned" /\ numPeriods >= 1) =>
        \A j \in 1..Len(emaClose) :
            isnan(emaClose[j]) =>
                \A k \in 1..Len(emaOut) :
                    (k >= j /\ k >= numPeriods) => isnan(emaOut[k])

\* the ratio of the trade closed by a SELL at position j, from the closes
TradeRatio(close, sig, j) ==
    RSub(RDiv(close[j], RMul(close[OpeningBuy(sig, j)], Norm(10075, 10000))),
         Norm(75, 10000))

\* C16: a step that closes a trade counts it as successful exactly if its
\* return ratio r = sellPrice/buyPrice - 0.0075 is at least 1, and as
\* unsuccessful exactly if r < 1.
C16_SuccessIffRatioAtLeastOne ==
    [][ (pc = "loop" /\ i < Len(closeCol)
            /\ buySellSignalCol[Row] = "SELL"
            /\ HoldingBefore(buySellSignalCol, Row))
        => /\ numSuccess' = numSuccess + 1
                <=> ~Less(TradeRatio(closeCol, buySellSignalCol, Row), R(1))
           /\ numFailure' = numFailure + 1
                <=> Less(TradeRatio(closeCol, buySellSignalCol, Row), R(1)) ]_vars

\* C17: the investment amount is strictly positive after every step of the
\* backtest (the close prices and the initial capital of the model are
\* strictly positive).
C17_InvestmentPositive == QCmp(investment, QOfInt(0)) > 0

\* C14: while assessTradingStrategy replays the signal column that
\* EMA_trading_strategy returned, its bought flag after each position equals
\* the generator's bought flag after the same position, and it never meets a
\* BUY while holding or a SELL while flat.
C14_Lockstep ==
    pipePc = "assess" =>
        /\ Len(stratBoughtAfter) = Len(buySellSignalCol)
        /\ bought = (IF i = 0 THEN FALSE ELSE stratBoughtAfter[i])
        /\ (pc = "loop" /\ i < Len(closeCol)) =>
              /\ buySellSignalCol[Row] = "BUY" => ~bought
              /\ buySellSignalCol[Row] = "SELL" => bought

\* the replay has acted on a BUY and on a SELL of the generator and returned
C14_Witness ==
    /\ pipePc = "assess" /\ pc = "returned"
    /\ \E j \in 1..Len(buySellSignalCol), k \in 1..Len(buySellSignalCol) :
          /\ j < k
          /\ buySellSignalCol[j] = "BUY" /\ stratBoughtAfter[j]
          /\ buySellSignalCol[k] = "SELL" /\ ~stratBoughtAfter[k]
    /\ numSuccess + numFailure = 1

\* C18: in the chained calls, no BUY or SELL stands at a position before
\* index long-1, and the generator's holding flag is false after each such
\* position.
C18_NoSignalInWarmUp ==
    pipePc \in {"strategy", "assess"} =>
        /\ \A j \in 1..Len(Buy_Sell_Signal) :
              j - 1 < pipePeriods[3] - 1 => Buy_Sell_Signal[j] = NoSignal
        /\ \A j \in 1..Len(stratBoughtAfter) :
              j - 1 < pipePeriods[3] - 1 => ~stratBoughtAfter[j]

\* the first signal stands exactly at index long-1, with defined short and mid
\* EMAs before it
C18_Witness ==
    /\ pipePc = "strategy" /\ stratPc = "returned"
    /\ pipePeriods[3] >= 3
    /\ Len(Buy_Sell_Signal) >= pipePeriods[3]
    /\ Buy_Sell_Signal[pipePeriods[3]] = "BUY"
    /\ stratBoughtAfter[pipePeriods[3]]
    /\ ~isnan(emaCol1[pipePeriods[3] - 1]) /\ ~isnan(emaCol2[pipePeriods[3] - 1])
    /\ isnan(emaCol3[pipePeriods[3] - 1])

=============================================================================
